---- MODULE Spec2Model ----
(***************************************************************************)
(* Model of the in-memory todo API of src/api/server.js: the store (todos, *)
(* nextId) and one action per route handler.  Timestamps are the           *)
(* millisecond count behind Date.toISOString(); strings are sequences of   *)
(* one-character strings; an optional JSON / query field is a sequence of  *)
(* length 0 (undefined) or 1 (present).                                    *)
(*                                                                         *)
(* todos, nextId : the store (src/api/server.js:45-54)                     *)
(* clock         : the last reading of new Date(); it never goes backwards *)
(* req, resp     : the request being served and its response; a handler    *)
(*                 runs to completion when no request is being served, and *)
(*                 EndRequest ends the exchange                            *)
(* issued        : history: the ids assigned so far, in order              *)
(* deleted       : history: the ids removed by a successful DELETE         *)
(***************************************************************************)
EXTENDS Integers, Sequences, FiniteSets, TLC

VARIABLES todos, nextId, clock, req, resp, issued, deleted

vars == <<todos, nextId, clock, req, resp, issued, deleted>>

(* ---------------- bounds of the model ---------------- *)
MaxId == 3       \* create / bulk-create stop once nextId would pass MaxId + 1
MaxClock == 1    \* the clock stops at MaxClock
MaxBulk == 2     \* longest accepted bulk body that is enumerated

(* ---------------- program constants ---------------- *)
SeedId == 1
FirstNextId == 2
MinTextLen == 1
MaxTextLen == 200
MinBulkItems == 1
MaxBulkItems == 100
DefaultLimit == 20
MaxLimit == 100
DefaultOffset == 0
MinOffset == 0

(* ---------------- optional values ---------------- *)
None == <<>>
Some(v) == <<v>>
IsSome(o) == Len(o) = 1
Get(o) == o[1]

(* ---------------- strings ---------------- *)
Repeat(c, n) == [i \in 1..n |-> c]

IsSpace(c) == c = " "

RECURSIVE TrimStart(_)
TrimStart(s) == IF s # <<>> /\ IsSpace(Head(s)) THEN TrimStart(Tail(s)) ELSE s

RECURSIVE TrimEnd(_)
TrimEnd(s) ==
  IF s # <<>> /\ IsSpace(s[Len(s)]) THEN TrimEnd(SubSeq(s, 1, Len(s) - 1)) ELSE s

Trim(s) == TrimEnd(TrimStart(s))

\* String.prototype.toLowerCase, one character at a time; the dotted
\* capital I of the seed text lowers to "i" followed by a combining dot.
LowerChar(c) ==
  CASE c = "A" -> <<"a">>
    [] c = "K" -> <<"k">>
    [] c = "Idot" -> <<"i", "dot">>
    [] OTHER -> <<c>>

RECURSIVE ToLowerCase(_)
ToLowerCase(s) ==
  IF s = <<>> THEN <<>> ELSE LowerChar(Head(s)) \o ToLowerCase(Tail(s))

Includes(s, sub) ==
  \E i \in 0..(Len(s) - Len(sub)) : SubSeq(s, i + 1, i + Len(sub)) = sub

SeedText == <<"Idot", "l", "k", " ", "t", "o", "d", "o">>

(* ---------------- helpers of the source ---------------- *)
\* parseBool: true / false / null, null being None
parseBool(v) ==
  IF v = "true" THEN Some(TRUE) ELSE IF v = "false" THEN Some(FALSE) ELSE None

Min(a, b) == IF a < b THEN a ELSE b
Max(a, b) == IF a > b THEN a ELSE b

\* Array.prototype.slice(start, end) on a sequence
RelIndex(k, n) == IF k < 0 THEN Max(n + k, 0) ELSE Min(k, n)
Slice(s, start, end) ==
  SubSeq(s, RelIndex(start, Len(s)) + 1, RelIndex(end, Len(s)))

\* Array.prototype.filter is SelectSeq
sortDir(order) == IF order = "desc" THEN -1 ELSE 1
\* variant: an unrecognized key falls back to createdAt
sortKeyFallbackCreatedAt(sort) ==
  IF sort = "updatedAt" THEN "updatedAt"
  ELSE IF sort = "id" THEN "id" ELSE "createdAt"

sortKey(sort) ==
  IF sort = "updatedAt" THEN "updatedAt"
  ELSE IF sort = "createdAt" THEN "createdAt" ELSE "id"

Compare(a, b, key, dir) ==
  IF a[key] > b[key] THEN 1 * dir ELSE IF a[key] < b[key] THEN (-1) * dir ELSE 0

\* Array.prototype.sort is stable: x goes after every element it does not
\* precede.
RECURSIVE InsertSorted(_, _, _, _)
InsertSorted(x, s, key, dir) ==
  IF s = <<>> THEN <<x>>
  ELSE IF Compare(s[Len(s)], x, key, dir) <= 0 THEN Append(s, x)
  ELSE Append(InsertSorted(x, SubSeq(s, 1, Len(s) - 1), key, dir), s[Len(s)])

RECURSIVE StableSort(_, _, _)
StableSort(s, key, dir) ==
  IF s = <<>> THEN <<>>
  ELSE InsertSorted(s[Len(s)], StableSort(SubSeq(s, 1, Len(s) - 1), key, dir), key, dir)

sortTodos(items, sort, order) == StableSort(items, sortKey(sort), sortDir(order))

(* ---------------- validation schemas ---------------- *)
TextOk(t) == Len(Trim(t)) >= MinTextLen /\ Len(Trim(t)) <= MaxTextLen

TodoCreateSchema(body) == IsSome(body.text) /\ TextOk(Get(body.text))

TodoPutSchema(body) ==
  /\ IsSome(body.text) /\ TextOk(Get(body.text))
  /\ IsSome(body.done)

TodoPatchSchema(body) ==
  /\ IsSome(body.text) => TextOk(Get(body.text))
  /\ IsSome(body.text) \/ IsSome(body.done)

BulkCreateSchema(body) ==
  /\ IsSome(body.items)
  /\ Len(Get(body.items)) >= MinBulkItems
  /\ Len(Get(body.items)) <= MaxBulkItems
  /\ \A i \in 1..Len(Get(body.items)) : TodoCreateSchema(Get(body.items)[i])

(* ---------------- requests that are enumerated ---------------- *)
ValidText == <<" ", "A", " ">>
NoBody == [text |-> None, done |-> None]
CreateBodies ==
  [text : {None, Some(<<>>), Some(<<" ">>), Some(ValidText), Some(Repeat("a", MaxTextLen + 1))},
   done : {None}]
Body(text, done) == [text |-> text, done |-> done]
UpdateBodies ==
  [text : {None, Some(<<" ">>), Some(ValidText)}, done : {None, Some(TRUE), Some(FALSE)}]

Items == {[text |-> Some(<<" ">>)], [text |-> Some(ValidText)]}
RECURSIVE SeqsUpTo(_, _)
SeqsUpTo(S, n) ==
  IF n = 0 THEN {<<>>}
  ELSE LET shorter == SeqsUpTo(S, n - 1)
       IN shorter \cup {Append(s, x) : s \in {t \in shorter : Len(t) = n - 1}, x \in S}
BulkBodies ==
  {[items |-> None]}
    \cup {[items |-> Some(s)] : s \in SeqsUpTo(Items, MaxBulk)}
    \cup {[items |-> Some(Repeat([text |-> Some(ValidText)], MaxBulkItems + 1))]}

Ids == 1..(MaxId + 1)

OptQ == {None, Some(<<>>), Some(<<" ", "K">>), Some(<<"a">>)}
OptDoneRaw == {None, Some("true"), Some("false"), Some("maybe")}
OptSort == {None, Some(""), Some("id"), Some("createdAt"), Some("updatedAt"), Some("text")}
OptOrder == {None, Some(""), Some("asc"), Some("desc"), Some("up")}
OptLimit == {None} \cup {Some(n) : n \in {-2, -1, 0, 1, 2, MaxLimit + 1}}
OptOffset == {None} \cup {Some(n) : n \in {-1, 0, 1, 2}}
NoQuery ==
  [q |-> None, done |-> None, sort |-> None, order |-> None, limit |-> None, offset |-> None]
\* one group of parameters varies at a time, the others keep a fixed value
FilterQueries ==
  [q : OptQ, done : OptDoneRaw, sort : {None}, order : {None}, limit : {None}, offset : {None}]
SortQueries ==
  [q : {None}, done : {None}, sort : OptSort, order : OptOrder, limit : {None}, offset : {None}]
PageQueries ==
  [q : {None}, done : {None, Some("false")}, sort : {Some("id")}, order : {Some("asc"), Some("desc")},
   limit : OptLimit, offset : OptOffset]
Queries == FilterQueries \cup SortQueries \cup PageQueries
\* a few list requests for runs that are about the writes
CoreQueries ==
  {NoQuery, [NoQuery EXCEPT !.done = Some("maybe")], [NoQuery EXCEPT !.done = Some("true")],
   [NoQuery EXCEPT !.sort = Some("id"), !.order = Some("asc"), !.limit = Some(1)]}

(* ---------------- responses ---------------- *)
NoMeta == [kind |-> "none"]
Request(op, id, body, query) == [op |-> op, id |-> id, body |-> body, query |-> query]
Response(status, code, items, meta) ==
  [status |-> status, code |-> code, items |-> items, meta |-> meta]
\* no request is being served
NoRequest == Request("NONE", 0, NoBody, NoQuery)
NoResponse == Response(0, "NONE", <<>>, NoMeta)
Idle == req = NoRequest
apiError(status, code) == Response(status, code, <<>>, NoMeta)

IdsOf(s) == {s[i].id : i \in 1..Len(s)}
FindIndex(s, id) ==
  IF id \in IdsOf(s) THEN CHOOSE i \in 1..Len(s) : s[i].id = id /\ \A j \in 1..(i - 1) : s[j].id # id
  ELSE 0

(* ---------------- initial state ---------------- *)
\* the seed record reads the clock twice
Init ==
  /\ \E c \in {0}, u \in 0..Min(1, MaxClock) :
       /\ todos = <<[id |-> SeedId, text |-> SeedText, done |-> FALSE,
                     createdAt |-> c, updatedAt |-> u]>>
       /\ clock = u
  /\ nextId = FirstNextId
  /\ req = NoRequest
  /\ resp = NoResponse
  /\ issued = <<SeedId>>
  /\ deleted = {}

(* ---------------- GET /v1/todos ---------------- *)
\* x || d on a query string: undefined and "" are falsy
OrDefault(o, d) == IF IsSome(o) /\ Get(o) # "" THEN Get(o) ELSE d
\* Number(x || d) on a query string that spells an integer: never falsy
NumberOr(o, d) == IF IsSome(o) THEN Get(o) ELSE d

listQ(query) == ToLowerCase(Trim(IF IsSome(query.q) THEN Get(query.q) ELSE <<>>))

listFilterQ(items, query) ==
  IF listQ(query) # <<>>
  THEN SelectSeq(items, LAMBDA t : Includes(ToLowerCase(t.text), listQ(query)))
  ELSE items

listDoneInvalid(query) == IsSome(query.done) /\ parseBool(Get(query.done)) = None

listFilterDone(items, query) ==
  IF IsSome(query.done)
  THEN SelectSeq(items, LAMBDA t : t.done = Get(parseBool(Get(query.done))))
  ELSE items

listSort(query) == OrDefault(query.sort, "createdAt")
listOrder(query) == OrDefault(query.order, "desc")

listItems(store, query) ==
  sortTodos(listFilterDone(listFilterQ(store, query), query), listSort(query), listOrder(query))

listLimit(query) == Min(NumberOr(query.limit, DefaultLimit), MaxLimit)
listOffset(query) == Max(NumberOr(query.offset, DefaultOffset), MinOffset)

listPage(items, limit, offset) == Slice(items, offset, offset + limit)

listMeta(items, limit, offset) ==
  [kind |-> "page", total |-> Len(items), limit |-> limit, offset |-> offset,
   hasNext |-> offset + limit < Len(items), hasPrev |-> offset > 0]

listResponse(store, query) ==
  IF listDoneInvalid(query) THEN apiError(400, "VALIDATION_ERROR")
  ELSE Response(200, "OK",
                listPage(listItems(store, query), listLimit(query), listOffset(query)),
                listMeta(listItems(store, query), listLimit(query), listOffset(query)))

\* variant: the store itself is sorted (no copy) when no filter built a new array
ListSortInPlace(queries) ==
  \E query \in queries :
    /\ Idle
    /\ req' = Request("LIST", 0, NoBody, query)
    /\ resp' = listResponse(todos, query)
    /\ todos' = IF listDoneInvalid(query) \/ IsSome(query.done) \/ listQ(query) # <<>>
                THEN todos ELSE listItems(todos, query)
    /\ UNCHANGED <<nextId, clock, issued, deleted>>

List(queries) ==
  \E query \in queries :
    /\ Idle
    /\ req' = Request("LIST", 0, NoBody, query)
    /\ resp' = listResponse(todos, query)
    /\ UNCHANGED <<todos, nextId, clock, issued, deleted>>

(* ---------------- GET /v1/todos/stats ---------------- *)
statsMeta(store) ==
  [kind |-> "stats", total |-> Len(store),
   done |-> Len(SelectSeq(store, LAMBDA t : t.done)),
   pending |-> Len(store) - Len(SelectSeq(store, LAMBDA t : t.done))]

Stats ==
  /\ Idle
  /\ req' = Request("STATS", 0, NoBody, NoQuery)
  /\ resp' = Response(200, "OK", <<>>, statsMeta(todos))
  /\ UNCHANGED <<todos, nextId, clock, issued, deleted>>

(* ---------------- GET /v1/todos/:id ---------------- *)
getResponse(store, id) ==
  IF FindIndex(store, id) = 0 THEN apiError(404, "NOT_FOUND")
  ELSE Response(200, "OK", <<store[FindIndex(store, id)]>>, NoMeta)

GetOne ==
  \E id \in Ids :
    /\ Idle
    /\ req' = Request("GET", id, NoBody, NoQuery)
    /\ resp' = getResponse(todos, id)
    /\ UNCHANGED <<todos, nextId, clock, issued, deleted>>

(* ---------------- POST /v1/todos ---------------- *)
newTodo(id, text, now) ==
  [id |-> id, text |-> text, done |-> FALSE, createdAt |-> now, updatedAt |-> now]

\* variant: the counter is read but not incremented
postIncrementForgotten(n) == n

\* nextId++ : the value after the increment
postIncrement(n) == n + 1

Create(bodies) ==
  \E body \in bodies :
    /\ Idle
    /\ req' = Request("POST", 0, body, NoQuery)
    /\ IF ~TodoCreateSchema(body)
       THEN /\ resp' = apiError(400, "VALIDATION_ERROR")
            /\ UNCHANGED <<todos, nextId, clock, issued, deleted>>
       ELSE \E now \in clock..MaxClock :
            /\ nextId <= MaxId
            /\ todos' = Append(todos, newTodo(nextId, Trim(Get(body.text)), now))
            /\ nextId' = postIncrement(nextId)
            /\ clock' = now
            /\ issued' = Append(issued, nextId)
            /\ resp' = Response(201, "Created", <<newTodo(nextId, Trim(Get(body.text)), now)>>, NoMeta)
            /\ UNCHANGED deleted

(* ---------------- POST /v1/todos/bulk ---------------- *)
\* parsed.data.items.map(...): the todos pushed, in input order, from
\* counter value n on
RECURSIVE bulkCreated(_, _, _)
bulkCreated(items, n, now) ==
  IF items = <<>> THEN <<>>
  ELSE <<newTodo(n, Trim(Get(Head(items).text)), now)>>
         \o bulkCreated(Tail(items), postIncrement(n), now)

RECURSIVE bulkNextId(_, _)
bulkNextId(items, n) ==
  IF items = <<>> THEN n ELSE bulkNextId(Tail(items), postIncrement(n))

\* variant: each item is validated as it is created, so the valid items
\* before the first invalid one are kept
RECURSIVE validPrefix(_)
validPrefix(items) ==
  IF items = <<>> \/ ~TodoCreateSchema(Head(items)) THEN <<>>
  ELSE <<Head(items)>> \o validPrefix(Tail(items))

BulkCreateItemwise(bodies) ==
  \E body \in bodies, now \in clock..MaxClock :
    LET items == IF IsSome(body.items) /\ Len(Get(body.items)) <= MaxBulkItems
                 THEN validPrefix(Get(body.items)) ELSE <<>>
        created == bulkCreated(items, nextId, now)
    IN /\ Idle
       /\ req' = Request("BULK", 0, body, NoQuery)
       /\ nextId + Len(items) - 1 <= MaxId
       /\ todos' = todos \o created
       /\ nextId' = bulkNextId(items, nextId)
       /\ clock' = IF items = <<>> THEN clock ELSE now
       /\ issued' = issued \o [i \in 1..Len(created) |-> created[i].id]
       /\ resp' = IF BulkCreateSchema(body) THEN Response(201, "Created", created, NoMeta)
                  ELSE apiError(400, "VALIDATION_ERROR")
       /\ UNCHANGED deleted

BulkCreate(bodies) ==
  \E body \in bodies :
    /\ Idle
    /\ req' = Request("BULK", 0, body, NoQuery)
    /\ IF ~BulkCreateSchema(body)
       THEN /\ resp' = apiError(400, "VALIDATION_ERROR")
            /\ UNCHANGED <<todos, nextId, clock, issued, deleted>>
       ELSE \E now \in clock..MaxClock :
            LET created == bulkCreated(Get(body.items), nextId, now)
            IN /\ nextId + Len(Get(body.items)) - 1 <= MaxId
               /\ todos' = todos \o created
               /\ nextId' = bulkNextId(Get(body.items), nextId)
               /\ clock' = now
               /\ issued' = issued \o [i \in 1..Len(created) |-> created[i].id]
               /\ resp' = Response(201, "Created", created, NoMeta)
               /\ UNCHANGED deleted

(* ---------------- PUT /v1/todos/:id ---------------- *)
\* variant: the record is rebuilt instead of spread, createdAt included
putTodoRebuilt(old, body, now) ==
  [id |-> old.id, text |-> Trim(Get(body.text)), done |-> Get(body.done),
   createdAt |-> now, updatedAt |-> now]

putTodo(old, body, now) ==
  [old EXCEPT !.text = Trim(Get(body.text)), !.done = Get(body.done), !.updatedAt = now]

\* variant: the body is validated before the store is consulted
putResponseValidateFirst(store, id, body, now) ==
  IF ~TodoPutSchema(body) THEN apiError(400, "VALIDATION_ERROR")
  ELSE IF FindIndex(store, id) = 0 THEN apiError(404, "NOT_FOUND")
  ELSE Response(200, "OK", <<putTodo(store[FindIndex(store, id)], body, now)>>, NoMeta)

putResponse(store, id, body, now) ==
  IF FindIndex(store, id) = 0 THEN apiError(404, "NOT_FOUND")
  ELSE IF ~TodoPutSchema(body) THEN apiError(400, "VALIDATION_ERROR")
  ELSE Response(200, "OK", <<putTodo(store[FindIndex(store, id)], body, now)>>, NoMeta)

\* variant: the replaced record is removed and pushed back at the end
PutMoveToEnd(bodies) ==
  \E id \in Ids, body \in bodies :
    /\ Idle
    /\ req' = Request("PUT", id, body, NoQuery)
    /\ IF putResponse(todos, id, body, clock).status # 200
       THEN /\ resp' = putResponse(todos, id, body, clock)
            /\ UNCHANGED <<todos, nextId, clock, issued, deleted>>
       ELSE \E now \in clock..MaxClock :
            /\ resp' = putResponse(todos, id, body, now)
            /\ todos' = Append(SelectSeq(todos, LAMBDA x : x.id # id),
                               putTodo(todos[FindIndex(todos, id)], body, now))
            /\ clock' = now
            /\ UNCHANGED <<nextId, issued, deleted>>

Put(bodies) ==
  \E id \in Ids, body \in bodies :
    /\ Idle
    /\ req' = Request("PUT", id, body, NoQuery)
    /\ IF putResponse(todos, id, body, clock).status # 200
       THEN /\ resp' = putResponse(todos, id, body, clock)
            /\ UNCHANGED <<todos, nextId, clock, issued, deleted>>
       ELSE \E now \in clock..MaxClock :
            /\ resp' = putResponse(todos, id, body, now)
            /\ todos' = [todos EXCEPT ![FindIndex(todos, id)] = putTodo(@, body, now)]
            /\ clock' = now
            /\ UNCHANGED <<nextId, issued, deleted>>

(* ---------------- PATCH /v1/todos/:id ---------------- *)
\* variant: updatedAt is not refreshed
patchTodoStale(old, body, now) ==
  [old EXCEPT !.text = IF IsSome(body.text) THEN Trim(Get(body.text)) ELSE @,
              !.done = IF IsSome(body.done) THEN Get(body.done) ELSE @]

patchTodo(old, body, now) ==
  [old EXCEPT !.text = IF IsSome(body.text) THEN Trim(Get(body.text)) ELSE @,
              !.done = IF IsSome(body.done) THEN Get(body.done) ELSE @,
              !.updatedAt = now]

patchResponse(store, id, body, now) ==
  IF FindIndex(store, id) = 0 THEN apiError(404, "NOT_FOUND")
  ELSE IF ~TodoPatchSchema(body) THEN apiError(400, "VALIDATION_ERROR")
  ELSE Response(200, "OK", <<patchTodo(store[FindIndex(store, id)], body, now)>>, NoMeta)

Patch(bodies) ==
  \E id \in Ids, body \in bodies :
    /\ Idle
    /\ req' = Request("PATCH", id, body, NoQuery)
    /\ IF patchResponse(todos, id, body, clock).status # 200
       THEN /\ resp' = patchResponse(todos, id, body, clock)
            /\ UNCHANGED <<todos, nextId, clock, issued, deleted>>
       ELSE \E now \in clock..MaxClock :
            /\ resp' = patchResponse(todos, id, body, now)
            /\ todos' = [todos EXCEPT ![FindIndex(todos, id)] = patchTodo(@, body, now)]
            /\ clock' = now
            /\ UNCHANGED <<nextId, issued, deleted>>

(* ---------------- DELETE /v1/todos/:id ---------------- *)
\* variant: the filter keeps the matching record instead of dropping it
deleteFromInverted(store, id) == SelectSeq(store, LAMBDA x : x.id = id)

deleteFrom(store, id) == SelectSeq(store, LAMBDA x : x.id # id)

Delete ==
  \E id \in Ids :
    /\ Idle
    /\ req' = Request("DELETE", id, NoBody, NoQuery)
    /\ todos' = deleteFrom(todos, id)
    /\ IF Len(deleteFrom(todos, id)) = Len(todos)
       THEN /\ resp' = apiError(404, "NOT_FOUND")
            /\ UNCHANGED deleted
       ELSE /\ resp' = Response(204, "No Content", <<>>, NoMeta)
            /\ deleted' = deleted \cup {id}
    /\ UNCHANGED <<nextId, clock, issued>>

(* ---------------- the server ---------------- *)
\* the response has been sent: req and res of the request are gone and the
\* next request is taken
EndRequest ==
  /\ ~Idle
  /\ req' = NoRequest
  /\ resp' = NoResponse
  /\ UNCHANGED <<todos, nextId, clock, issued, deleted>>

Next ==
  \/ List(CoreQueries)
  \/ Stats
  \/ GetOne
  \/ Create(CreateBodies)
  \/ BulkCreate(BulkBodies)
  \/ Put(UpdateBodies)
  \/ Patch(UpdateBodies)
  \/ Delete
  \/ EndRequest

Spec == Init /\ [][Next]_vars

\* the same server, driven with well-formed writes and every enumerated
\* list query
ListNext ==
  \/ List(Queries)
  \/ Stats
  \/ GetOne
  \/ Create({Body(Some(ValidText), None)})
  \/ Patch({Body(None, Some(TRUE))})
  \/ Delete
  \/ EndRequest

ListSpec == Init /\ [][ListNext]_vars

(* ======================= properties ======================= *)
Ascending(s) == \A i, j \in 1..Len(s) : i < j => s[i] < s[j]
IdSeq(s) == [i \in 1..Len(s) |-> s[i].id]

\* C1: every id assigned by create or bulk-create (each item of one bulk
\* call included) is strictly greater than every id assigned before it, the
\* seed's included, whatever was deleted in between; so no id is assigned
\* twice.
C1_IdsStrictlyIncrease ==
  /\ Ascending(issued)
  /\ (req.op \in {"POST", "BULK"} /\ resp.status = 201) =>
       /\ Len(resp.items) <= Len(issued)
       /\ IdSeq(resp.items) =
            SubSeq(issued, Len(issued) - Len(resp.items) + 1, Len(issued))

\* a bulk-create of two items answered 201 after an earlier todo was deleted
C1_Witness ==
  /\ req.op = "BULK" /\ resp.status = 201 /\ Len(resp.items) = 2
  /\ deleted # {}
  /\ Len(issued) >= 3

BulkHasInvalidItem(body) ==
  /\ IsSome(body.items)
  /\ \E i \in 1..Len(Get(body.items)) : ~TodoCreateSchema(Get(body.items)[i])

\* C2: a request answered with VALIDATION_ERROR or NOT_FOUND leaves the
\* collection and the next-id counter as they were; a bulk-create with an
\* invalid item is such a request.
C2_ErrorsLeaveStoreUnchanged ==
  [][/\ resp'.code \in {"VALIDATION_ERROR", "NOT_FOUND"} =>
          (todos' = todos /\ nextId' = nextId)
     /\ (req'.op = "BULK" /\ BulkHasInvalidItem(req'.body)) =>
          (resp'.code = "VALIDATION_ERROR" /\ todos' = todos /\ nextId' = nextId)]_vars

\* a bulk-create whose first item is valid and whose second is not, rejected
C2_Witness ==
  /\ req.op = "BULK" /\ resp.code = "VALIDATION_ERROR"
  /\ IsSome(req.body.items) /\ Len(Get(req.body.items)) = 2
  /\ TodoCreateSchema(Get(req.body.items)[1])
  /\ ~TodoCreateSchema(Get(req.body.items)[2])

C4_PageIsClampedWindow ==
  (req.op = "LIST" /\ resp.status = 200) =>
    LET all == listItems(todos, req.query)
        limit == resp.meta.limit
        offset == resp.meta.offset
    IN /\ limit >= 0 /\ limit <= MaxLimit
       /\ offset >= 0
       /\ resp.items = SubSeq(all, offset + 1, Min(offset + limit, Len(all)))
       /\ Len(resp.items) <= limit

Ordered(s, key, dir) ==
  \A i, j \in 1..Len(s) :
    i < j => IF dir = 1 THEN s[i][key] <= s[j][key] ELSE s[i][key] >= s[j][key]

StrictlyOrdered(s, key, dir) ==
  \A i, j \in 1..Len(s) :
    i < j => IF dir = 1 THEN s[i][key] < s[j][key] ELSE s[i][key] > s[j][key]

\* C5 as stated: every supplied sort value other than id, createdAt,
\* updatedAt sorts by id, and every supplied order value other than desc
\* sorts ascending by the chosen key.
C5_UnrecognizedFallsBack ==
  (req.op = "LIST" /\ resp.status = 200) =>
    /\ (IsSome(req.query.sort) /\ Get(req.query.sort) \notin {"id", "createdAt", "updatedAt"}) =>
         \/ StrictlyOrdered(resp.items, "id", 1)
         \/ StrictlyOrdered(resp.items, "id", -1)
    /\ (IsSome(req.query.order) /\ Get(req.query.order) # "desc") =>
         Ordered(resp.items, sortKey(listSort(req.query)), 1)

EffectiveDir(query) ==
  IF IsSome(query.order) /\ Get(query.order) \notin {"", "desc"} THEN 1 ELSE -1

\* C5 amended: every supplied non-empty sort value other than id, createdAt,
\* updatedAt sorts by id (ascending, or descending when order is desc,
\* absent or empty), and every supplied non-empty order value other than
\* desc sorts ascending by the chosen key; an empty sort or order value is
\* treated like an absent one (sort by createdAt, order desc).
C5_NonEmptyUnrecognizedFallsBack ==
  (req.op = "LIST" /\ resp.status = 200) =>
    /\ (IsSome(req.query.sort) /\ Get(req.query.sort) \notin {"", "id", "createdAt", "updatedAt"}) =>
         StrictlyOrdered(resp.items, "id", EffectiveDir(req.query))
    /\ (IsSome(req.query.order) /\ Get(req.query.order) \notin {"", "desc"}) =>
         Ordered(resp.items, sortKey(listSort(req.query)), 1)
    /\ (~IsSome(req.query.sort) \/ req.query.sort = Some("")) =>
         Ordered(resp.items, "createdAt", EffectiveDir(req.query))
    /\ (~IsSome(req.query.order) \/ req.query.order = Some("")) =>
         Ordered(resp.items, sortKey(listSort(req.query)), -1)

\* an unrecognized sort value with order desc, over two todos created in the
\* same millisecond, listed by descending id
C5_Witness ==
  /\ req.op = "LIST" /\ resp.status = 200
  /\ req.query.sort = Some("text") /\ req.query.order = Some("desc")
  /\ Len(resp.items) >= 2
  /\ resp.items[1].createdAt = resp.items[2].createdAt
  /\ resp.items[1].id > resp.items[2].id

\* C6: once an id has been deleted, every later GET, PUT, PATCH or DELETE of
\* it is answered NOT_FOUND, whatever was created in between, and the id is
\* never in the collection again.
C6_DeletedStaysDeleted ==
  [][/\ (req'.op \in {"GET", "PUT", "PATCH", "DELETE"} /\ req'.id \in deleted) =>
          resp'.code = "NOT_FOUND"
     /\ \A id \in deleted : id \notin IdsOf(todos')]_vars

\* a GET of a deleted id, answered NOT_FOUND, after a later create
C6_Witness ==
  /\ req.op = "GET" /\ req.id \in deleted /\ resp.code = "NOT_FOUND"
  /\ \E i \in 1..Len(todos) : todos[i].id > req.id

\* C7: a successful PATCH whose body holds only done sets the todo's done
\* to the supplied value and its updatedAt to the time of the request, and
\* leaves its id, text and createdAt, every other todo, the order of the
\* collection and the next-id counter unchanged.
C7_PatchDoneOnlyFrame ==
  [][(req'.op = "PATCH" /\ resp'.status = 200
        /\ IsSome(req'.body.done) /\ ~IsSome(req'.body.text)) =>
       LET i == FindIndex(todos, req'.id)
       IN /\ i # 0
          /\ Len(todos') = Len(todos)
          /\ todos'[i].done = Get(req'.body.done)
          /\ todos'[i].updatedAt = clock'
          /\ todos'[i].id = todos[i].id
          /\ todos'[i].text = todos[i].text
          /\ todos'[i].createdAt = todos[i].createdAt
          /\ \A j \in 1..Len(todos) : j # i => todos'[j] = todos[j]
          /\ nextId' = nextId
          /\ resp'.items = <<todos'[i]>>]_vars

\* a done-only PATCH that flipped done and moved updatedAt past createdAt
C7_Witness ==
  /\ req.op = "PATCH" /\ resp.status = 200
  /\ req.body = Body(None, Some(TRUE))
  /\ Len(todos) >= 2
  /\ \E i \in 1..Len(todos) :
       /\ todos[i].id = req.id
       /\ todos[i].done
       /\ todos[i].updatedAt > todos[i].createdAt
       /\ todos[i].text = SeedText

\* C8: list (any filter, sort, order, limit, offset), get by id and stats
\* leave the collection, its order and the next-id counter unchanged, and
\* the result is the one the same read returns on the state it leaves
\* behind, so repeating the read with no write in between repeats the result.
C8_ReadsAreFrameFree ==
  [][req'.op \in {"LIST", "GET", "STATS"} =>
       /\ todos' = todos
       /\ nextId' = nextId
       /\ req'.op = "LIST" => resp' = listResponse(todos', req'.query)
       /\ req'.op = "GET" => resp' = getResponse(todos', req'.id)
       /\ req'.op = "STATS" => resp'.meta = statsMeta(todos')]_vars

\* a list whose sorted result is in another order than the collection
C8_Witness ==
  /\ req.op = "LIST" /\ resp.status = 200
  /\ Len(todos) >= 2
  /\ Len(resp.items) = Len(todos)
  /\ resp.items # todos

\* C9: with a clock that never goes backwards, every todo in the collection
\* (the seed included) has updatedAt >= createdAt, and the createdAt of a
\* todo never changes while it is in the collection.
C9_CreatedAtFixedAndNotAfterUpdatedAt ==
  /\ [](\A i \in 1..Len(todos) : todos[i].updatedAt >= todos[i].createdAt)
  /\ [][\A i \in 1..Len(todos), j \in 1..Len(todos') :
          todos'[j].id = todos[i].id => todos'[j].createdAt = todos[i].createdAt]_vars

\* a replaced todo whose updatedAt is later than its createdAt
C9_Witness ==
  /\ req.op = "PUT" /\ resp.status = 200
  /\ \E i \in 1..Len(todos) :
       /\ todos[i].id = req.id
       /\ todos[i].updatedAt > todos[i].createdAt
       /\ todos[i].text # SeedText

RemoveAt(s, i) == SubSeq(s, 1, i - 1) \o SubSeq(s, i + 1, Len(s))

\* C10: the collection is in insertion order: ids strictly ascending by
\* position and all below the next-id counter; replace and patch keep every
\* todo at its position, and a successful delete removes exactly the todo
\* with the given id and keeps the others in order.
C10_InsertionOrder ==
  /\ [](Ascending(IdSeq(todos)) /\ \A i \in 1..Len(todos) : todos[i].id < nextId)
  /\ [][/\ req'.op \in {"PUT", "PATCH"} => IdSeq(todos') = IdSeq(todos)
        /\ (req'.op = "DELETE" /\ resp'.status = 204) =>
             /\ FindIndex(todos, req'.id) # 0
             /\ todos' = RemoveAt(todos, FindIndex(todos, req'.id))]_vars

\* a delete that took a todo out of the middle of three
C10_Witness ==
  /\ req.op = "DELETE" /\ resp.status = 204
  /\ Len(todos) = 2
  /\ todos[1].id < req.id /\ req.id < todos[2].id

====
